---- MODULE Spec2Model ----
(***************************************************************************)
(* Model of tftp-rs: the packet codec (src/src/serial.rs, constants.rs)    *)
(* and the transfer engine Machine (src/src/machine.rs).                   *)
(*                                                                         *)
(* Byte buffers are sequences of integers 0..255.  A Rust index i into a   *)
(* buffer is position i+1 of the sequence.  The caller-owned Vec<u8> that  *)
(* a file reference points to is kept in rx_vec / tx_vec; the Option       *)
(* fields of Machine say whether the engine currently holds the reference. *)
(***************************************************************************)
EXTENDS Integers, Sequences, FiniteSets, TLC

VARIABLES
    request_type,    \* Machine.request_type : "None" | "Read" | "Write"
    incoming_file,   \* Machine.incoming_file: "None" | "Some" (reference to rx_vec)
    outgoing_file,   \* Machine.outgoing_file: "None" | "Some" (reference to tx_vec)
    mode,            \* Machine.mode         : "Text" | "Binary"
    block,           \* Machine.block        : u16
    rx_vec,          \* caller's Vec<u8> last handed over as the file to receive into
    tx_vec,          \* caller's Vec<u8> last handed over as the file to send
    op,              \* last operation called
    arg,             \* arguments of the last call (received: the bytes before padding)
    result,          \* its result: "Ok", a TftprsError, or "Panic"
    count,           \* the usize of Ok(usize); 0 otherwise
    outgoing,        \* bytes the last call wrote into the outgoing buffer
    filename_out,    \* the String of Ok(String) from listen_for_request
    pre,             \* the Machine fields at the moment of the last call
    rx_init,         \* rx_vec as it was when it was attached
    rx_accepted,     \* payloads of the Data packets accepted since then, in order
    tx_sent,         \* payloads of the Data packets emitted since tx_vec was attached
    replies,         \* number of reply_* calls since the engine was last Idle
    peer             \* a second Machine and the datagrams in flight between the two

vars == <<request_type, incoming_file, outgoing_file, mode, block, rx_vec, tx_vec,
          op, arg, result, count, outgoing, filename_out, pre,
          rx_init, rx_accepted, tx_sent, replies, peer>>

----------------------------------------------------------------------------
(* constants.rs *)

MAX_PACKET_SIZE == 512
FIXED_REQUEST_BYTES == 4
FIXED_DATA_BYTES == 4
MAX_DATA_SIZE == MAX_PACKET_SIZE - FIXED_DATA_BYTES
TERMINATOR_BYTE == 0
U16_MAX == 65535

OpReadRequest == 1
OpWriteRequest == 2
OpData == 3
OpAcknowledgement == 4
OpError == 5

\* "NETASCII" and "OCTET" as ASCII bytes
TEXT_MODE == <<78, 69, 84, 65, 83, 67, 73, 73>>
BINARY_MODE == <<79, 67, 84, 69, 84>>

\* Faulty variants of OpCode_try_from: the request opcodes are unknown; every
\* value is an opcode
OpCode_try_from_transfer_only(value) == value \in {3, 4, 5}

OpCode_try_from_any(value) == TRUE

\* impl TryFrom<u16> for OpCode: TRUE iff the value is one of the five opcodes
OpCode_try_from(value) == value \in {OpReadRequest, OpWriteRequest, OpData, OpAcknowledgement, OpError}

ErrUndefined == 0
ErrDiskFull == 3
ErrIllegalOperation == 4

\* usize arithmetic wraps modulo 2^64 when overflow checks are off.  TLC's
\* integers are 32 bits wide, so the modulus is scaled down; a wrapped
\* difference is only ever compared with MAX_PACKET_SIZE and MAX_DATA_SIZE.
USIZE_MODULUS == 2^30

to_be_bytes(v) == <<v \div 256, v % 256>>
from_be_bytes(hi, lo) == hi * 256 + lo

Min(a, b) == IF a < b THEN a ELSE b

----------------------------------------------------------------------------
(* serial.rs *)

\* write_bytes panics when the destination slice head..head+count leaves the buffer
write_bytes_panics(head, source) == head + Len(source) > MAX_PACKET_SIZE

mode_string(m) == IF m = "Text" THEN TEXT_MODE ELSE BINARY_MODE

\* Faulty variants of filename_fits: the two terminators are not counted; the
\* longest filename is refused
filename_fits_without_terminators(m, filename) ==
    Len(filename) <= MAX_PACKET_SIZE - 2 - Len(mode_string(m))

filename_fits_strictly(m, filename) ==
    Len(filename) < MAX_PACKET_SIZE - FIXED_REQUEST_BYTES - Len(mode_string(m))

filename_fits(m, filename) ==
    LET mode_size == Len(mode_string(m))
        max_filename_size == MAX_PACKET_SIZE - FIXED_REQUEST_BYTES - mode_size
    IN Len(filename) <= max_filename_size

\* Request::new: TRUE iff it returns Ok
Request_new(m, filename) == filename_fits(m, filename)

\* Request::serialize: the bytes written (empty when it returns 0)
Request_serialize(request, m, filename) ==
    IF ~filename_fits(m, filename) THEN <<>>
    ELSE to_be_bytes(request) \o filename \o <<0>> \o mode_string(m) \o <<0>>

\* Faulty variant of Data_offset: the offset of the block after the one asked for
Data_offset_next_block(blk) == blk * MAX_DATA_SIZE

Data_offset(blk) == (blk - 1) * MAX_DATA_SIZE

\* Faulty variant of Data_new: a block that starts exactly at the end of the file is refused too
Data_new_refuses_empty_block(blk, data) ==
    IF blk = 0 THEN FALSE
    ELSE IF (blk - 1) * MAX_DATA_SIZE >= Len(data) THEN FALSE
    ELSE TRUE

\* Data::new: TRUE iff it returns Some
Data_new(blk, data) ==
    IF blk = 0 THEN FALSE
    ELSE IF (blk - 1) * MAX_DATA_SIZE > Len(data) THEN FALSE
    ELSE TRUE

Data_serialize(blk, data) ==
    LET cnt == Min(MAX_DATA_SIZE, Len(data) - Data_offset(blk))
    IN to_be_bytes(OpData) \o to_be_bytes(blk)
       \o SubSeq(data, Data_offset(blk) + 1, Data_offset(blk) + cnt)

Ack_serialize(blk) == to_be_bytes(OpAcknowledgement) \o to_be_bytes(blk)

\* ErrorResponse::serialize up to the point where write_bytes would panic
ErrorResponse_header(code) == to_be_bytes(OpError) \o to_be_bytes(code)
ErrorResponse_serialize(code, message) == ErrorResponse_header(code) \o message

----------------------------------------------------------------------------
(* machine.rs.  A Machine value is the record                               *)
(*   [request_type, incoming_file, outgoing_file, mode, block, rx, tx]      *)
(* where rx / tx are the Vecs behind the two file references.  Every        *)
(* operation yields the record                                              *)
(*   [m, result, count, outgoing, filename]                                 *)
(* of the Machine after the call, the result, and the bytes written.        *)

Ret(m, res, cnt, out) ==
    [m |-> m, result |-> res, count |-> cnt, outgoing |-> out, filename |-> <<>>]
Ok(m, out) == Ret(m, "Ok", Len(out), out)
Err(m, e) == Ret(m, e, 0, <<>>)
Panic(m, out) == Ret(m, "Panic", 0, out)

\* "Unknown error"
UNKNOWN_ERROR == <<85, 110, 107, 110, 111, 119, 110, 32, 101, 114, 114, 111, 114>>
NoMessage == [some |-> FALSE, val |-> <<>>]
SomeMessage(s) == [some |-> TRUE, val |-> s]

reset(self) ==
    [self EXCEPT !.request_type = "None", !.incoming_file = "None",
                 !.outgoing_file = "None", !.block = 0]

is_busy(self) == self.request_type # "None"

\* Faulty variant of set_mode: the test of is_busy is missing
set_mode_unguarded(self, m) == Ok([self EXCEPT !.mode = m], <<>>)

set_mode(self, m) ==
    IF is_busy(self) THEN Err(self, "Busy")
    ELSE Ok([self EXCEPT !.mode = m], <<>>)

\* Faulty variant of send_error: the engine is not reset
send_error_without_reset(self, code, message) ==
    LET text == IF message.some THEN message.val ELSE UNKNOWN_ERROR
    IN IF write_bytes_panics(Len(ErrorResponse_header(code)), text)
       THEN Panic(self, ErrorResponse_header(code))
       ELSE Ok(self, ErrorResponse_serialize(code, text))

send_error(self, code, message) ==
    LET text == IF message.some THEN message.val ELSE UNKNOWN_ERROR
    IN IF write_bytes_panics(Len(ErrorResponse_header(code)), text)
       THEN Panic(self, ErrorResponse_header(code))
       ELSE Ok(reset(self), ErrorResponse_serialize(code, text))

send_ack(self) == Ok(self, Ack_serialize(self.block))

send_block(self) ==
    IF self.outgoing_file = "Some"
    THEN IF Data_new(self.block, self.tx)
         THEN Ok(self, Data_serialize(self.block, self.tx))
         ELSE Ok(reset(self), <<>>)
    ELSE Err(self, "NoFile")

\* Faulty variant of file_too_large: no file is too large
file_too_large_never(file) == FALSE

\* The size check of request_send_file / request_receive_file
file_too_large(file) == Len(file) > U16_MAX * MAX_DATA_SIZE

\* Faulty variant of request_send_file: the Writer starts at block 1
request_send_file_from_block_1(self, filename, file) ==
    IF is_busy(self) THEN Err(self, "Busy")
    ELSE IF file_too_large(file) THEN Err(self, "BadRequestAttempted")
    ELSE LET s1 == [self EXCEPT !.block = 1]
             bytes == Request_serialize(OpWriteRequest, s1.mode, filename)
         IN IF Request_new(s1.mode, filename) /\ Len(bytes) > 0
            THEN Ok([s1 EXCEPT !.outgoing_file = "Some", !.tx = file,
                               !.request_type = "Write"], bytes)
            ELSE Err(s1, "BadRequestAttempted")

request_send_file(self, filename, file) ==
    IF is_busy(self) THEN Err(self, "Busy")
    ELSE IF file_too_large(file) THEN Err(self, "BadRequestAttempted")
    ELSE LET s1 == [self EXCEPT !.block = 0]
             bytes == Request_serialize(OpWriteRequest, s1.mode, filename)
         IN IF Request_new(s1.mode, filename)
            THEN IF Len(bytes) > 0
                 THEN Ok([s1 EXCEPT !.outgoing_file = "Some", !.tx = file,
                                    !.request_type = "Write"], bytes)
                 ELSE Err(s1, "BadRequestAttempted")
            ELSE Err(s1, "BadRequestAttempted")

request_receive_file(self, filename, file) ==
    IF is_busy(self) THEN Err(self, "Busy")
    ELSE IF file_too_large(file) THEN Err(self, "BadRequestAttempted")
    ELSE LET s1 == [self EXCEPT !.block = 1]
             bytes == Request_serialize(OpReadRequest, s1.mode, filename)
         IN IF Request_new(s1.mode, filename)
            THEN IF Len(bytes) > 0
                 THEN Ok([s1 EXCEPT !.incoming_file = "Some", !.rx = file,
                                    !.request_type = "Read"], bytes)
                 ELSE Err(s1, "BadRequestAttempted")
            ELSE Err(s1, "BadRequestAttempted")

\* Faulty variant of reply_send_file: the test of is_busy is missing
reply_send_file_unguarded(self, file) ==
    send_block([self EXCEPT !.outgoing_file = "Some", !.tx = file, !.block = 1])

reply_send_file(self, file) ==
    IF ~is_busy(self) THEN Err(self, "NoConnection")
    ELSE send_block([self EXCEPT !.outgoing_file = "Some", !.tx = file, !.block = 1])

reply_receive_file(self, file) ==
    IF ~is_busy(self) THEN Err(self, "NoConnection")
    ELSE send_ack([self EXCEPT !.incoming_file = "Some", !.rx = file, !.block = 0])

\* received[i] for a Rust index i
At(received, i) == received[i + 1]

\* The bytes of the String after result.push(char::from(byte)) for each byte
\* in turn: a byte below 128 is one byte of the String, a byte b from 128 on is
\* the char U+0080..U+00FF, which a String holds as two bytes
char_from(bytes) ==
    IF \A i \in 1..Len(bytes) : bytes[i] < 128 THEN bytes
    ELSE LET n == Len(bytes)
             wide == [i \in 0..n |-> Cardinality({j \in 1..i : bytes[j] >= 128})]
             first(i) == i + wide[i - 1]
             last(i) == i + wide[i]
         IN [k \in 1..(n + wide[n]) |->
                LET i == CHOOSE x \in 1..n : first(x) <= k /\ k <= last(x)
                IN IF bytes[i] < 128 THEN bytes[i]
                   ELSE IF k = first(i) THEN 192 + (bytes[i] \div 64)
                   ELSE 128 + (bytes[i] % 64)]

\* parse_string: [ok, str, cursor].  The loop stops at the first index at or
\* after the cursor that holds the terminator (Ok) or that holds another byte
\* while the index after it has reached cursor_limit (Err), whichever is first.
SetMin(S) == CHOOSE x \in S : \A y \in S : x <= y

parse_string(received, cursor, cursor_limit) ==
    LET terminators == {i \in cursor..(MAX_PACKET_SIZE - 1) :
                            At(received, i) = TERMINATOR_BYTE}
        overruns == {i \in cursor..(MAX_PACKET_SIZE - 1) :
                            At(received, i) # TERMINATOR_BYTE /\ i + 1 >= cursor_limit}
    IN IF terminators # {} /\ (overruns = {} \/ SetMin(terminators) < SetMin(overruns))
       THEN [ok |-> TRUE,
             str |-> char_from(SubSeq(received, cursor + 1, SetMin(terminators))),
             cursor |-> SetMin(terminators) + 1]
       ELSE [ok |-> FALSE, str |-> <<>>, cursor |-> cursor]

\* The comparison of the parsed mode string with a mode constant
mode_eq(str, constant) == str = constant

\* parse_request: [ok, m, filename]
parse_request(self, received) ==
    LET f == parse_string(received, 2, MAX_PACKET_SIZE - Len(BINARY_MODE) - 2)
        md == parse_string(received, f.cursor, MAX_PACKET_SIZE - 1)
    IN IF ~f.ok THEN [ok |-> FALSE, m |-> self, filename |-> <<>>]
       ELSE IF ~md.ok THEN [ok |-> FALSE, m |-> self, filename |-> <<>>]
       ELSE IF mode_eq(md.str, TEXT_MODE)
            THEN [ok |-> TRUE, m |-> [self EXCEPT !.mode = "Text"], filename |-> f.str]
       ELSE IF mode_eq(md.str, BINARY_MODE)
            THEN [ok |-> TRUE, m |-> [self EXCEPT !.mode = "Binary"], filename |-> f.str]
       ELSE [ok |-> FALSE, m |-> self, filename |-> <<>>]

opcode_of(received) == from_be_bytes(At(received, 0), At(received, 1))
block_of(received) == from_be_bytes(At(received, 2), At(received, 3))

\* The role listen_for_request takes for a peer's request opcode
listen_role(opcode) == IF opcode = OpWriteRequest THEN "Read" ELSE "Write"

listen_for_request(self, received) ==
    IF is_busy(self) THEN Err(self, "Busy")
    ELSE LET opcode == opcode_of(received) IN
         IF OpCode_try_from(opcode)
         THEN IF opcode \in {OpWriteRequest, OpReadRequest}
              THEN LET p == parse_request(self, received)
                   IN IF p.ok
                      THEN [Ok([p.m EXCEPT !.request_type = listen_role(opcode)], <<>>)
                                EXCEPT !.filename = p.filename]
                      ELSE Err(self, "BadPacketReceived")
              ELSE Err(self, "NoConnection")
         ELSE Err(self, "BadPacketReceived")

\* Faulty variant of check_block_on_message: the block number is not compared
check_block_accepts_any(self, received) == TRUE

\* check_block_on_message: TRUE iff it returns Ok
check_block_on_message(self, received) == ~(block_of(received) # self.block)

\* Faulty variant of handle_ack_and_send_next_block: no test for u16::MAX
handle_ack_wrapping(self, received) ==
    IF ~check_block_on_message(self, received) THEN Err(self, "BadPacketReceived")
    ELSE send_block([self EXCEPT !.block = (self.block + 1) % (U16_MAX + 1)])

handle_ack_and_send_next_block(self, received) ==
    IF ~check_block_on_message(self, received) THEN Err(self, "BadPacketReceived")
    ELSE IF self.block = U16_MAX THEN Ok(reset(self), <<>>)
    ELSE send_block([self EXCEPT !.block = self.block + 1])

\* Faulty variant of no_more_data: a full block ends the transfer as well
no_more_data_on_full_block(self, length) == length <= MAX_DATA_SIZE \/ self.block = U16_MAX

\* The condition under which handle_data_and_send_ack ends the transfer
no_more_data(self, length) == length < MAX_DATA_SIZE \/ self.block = U16_MAX

\* The block number handle_data_and_send_ack acknowledges: send_ack reads
\* self.block after the reset that ends the transfer, if there was one
ack_after(self, length) == IF no_more_data(self, length) THEN reset(self) ELSE self

handle_data_and_send_ack(self, received, length) ==
    IF ~check_block_on_message(self, received) THEN Err(self, "BadPacketReceived")
    ELSE IF self.incoming_file # "Some" THEN Err(self, "NoFile")
    ELSE IF FIXED_DATA_BYTES + length > MAX_PACKET_SIZE
         \* the loop pushes until the index leaves the received buffer
         THEN Panic([self EXCEPT !.rx = self.rx \o SubSeq(received, FIXED_DATA_BYTES + 1,
                                                          MAX_PACKET_SIZE)], <<>>)
    ELSE LET s1 == [self EXCEPT !.rx = self.rx \o SubSeq(received, FIXED_DATA_BYTES + 1,
                                                         FIXED_DATA_BYTES + length)]
             s2 == ack_after(s1, length)
             response == send_ack(s2)
         IN [response EXCEPT !.m = [s2 EXCEPT !.block = (s2.block + 1) % (U16_MAX + 1)]]

\* Faulty variant of on_error: an inbound Error is answered with an Error
on_error_replies(self) == send_error(self, ErrIllegalOperation, NoMessage)

\* The Error arm of process
on_error(self) == Ok(reset(self), <<>>)

\* length - FIXED_DATA_BYTES on usize: -1 stands for the overflow panic
usize_sub(a, b, checks) ==
    IF a >= b THEN a - b
    ELSE IF checks THEN -1 ELSE USIZE_MODULUS + a - b

process(self, received, length, checks) ==
    IF ~is_busy(self) THEN Err(self, "NoConnection")
    ELSE IF length > MAX_PACKET_SIZE THEN send_error(self, ErrIllegalOperation, NoMessage)
    ELSE LET opcode == opcode_of(received) IN
         IF OpCode_try_from(opcode)
         THEN IF opcode = OpAcknowledgement
              THEN IF self.request_type = "Write"
                   THEN handle_ack_and_send_next_block(self, received)
                   ELSE Err(self, "BadPacketReceived")
              ELSE IF opcode = OpData
              THEN IF self.request_type = "Read"
                   THEN IF usize_sub(length, FIXED_DATA_BYTES, checks) < 0
                        THEN Panic(self, <<>>)
                        ELSE handle_data_and_send_ack(self, received,
                                 usize_sub(length, FIXED_DATA_BYTES, checks))
                   ELSE Err(self, "BadPacketReceived")
              ELSE IF opcode = OpError
              THEN on_error(self)
              ELSE Err(self, "Busy")
         ELSE send_error(self, ErrIllegalOperation, NoMessage)

----------------------------------------------------------------------------
(* The inputs the caller and the peer can supply, drawn from small sets. *)

\* Data / Acknowledgement block numbers 0..MaxBlock arrive from the peer
MaxBlock == 2
\* Files to send hold up to MaxBlock - 1 full blocks (plus one byte), so that the
\* peer can acknowledge every block of them
MaxTxBlocks == MaxBlock - 1

\* A buffer [u8; MAX_PACKET_SIZE] that starts with the given bytes
Pad(bytes) ==
    IF Len(bytes) >= MAX_PACKET_SIZE THEN SubSeq(bytes, 1, MAX_PACKET_SIZE)
    ELSE bytes \o [i \in 1..(MAX_PACKET_SIZE - Len(bytes)) |-> 0]

\* Distinguishable file and payload contents (never 0, so that stale bytes show)
FileOfLen(n) == [i \in 1..n |-> 1 + ((i * 7) % 255)]
PayloadOf(blk, n) == [i \in 1..n |-> 1 + ((blk * 31 + i) % 255)]

\* reply_* calls explored in one transfer
MaxReplies == 2

Blocks == 0..MaxBlock
PayloadLens == {0, 1, MAX_DATA_SIZE}
TxFiles == {FileOfLen(n) : n \in {0} \cup {k * MAX_DATA_SIZE + d : k \in 1..MaxTxBlocks, d \in {0, 1}}}
RxFiles == {<<>>, <<17, 34>>}

\* "ABCDE"
FILE_ABCDE == <<65, 66, 67, 68, 69>>
Filenames == {FILE_ABCDE}

\* "octet" and "MAIL"
LOWER_OCTET == <<111, 99, 116, 101, 116>>
MAIL_MODE == <<77, 65, 73, 76>>
ModeStrings == {TEXT_MODE, BINARY_MODE, LOWER_OCTET, MAIL_MODE}

\* "WRONG"
MSG_WRONG == <<87, 82, 79, 78, 71>>
\* What the caller passes to send_error: a code and an optional message
Aborts ==
    {[code |-> ErrUndefined, message |-> NoMessage],
     [code |-> ErrDiskFull, message |-> SomeMessage(MSG_WRONG)],
     [code |-> ErrDiskFull, message |-> SomeMessage(FileOfLen(MAX_DATA_SIZE))],
     [code |-> ErrUndefined, message |-> SomeMessage(FileOfLen(MAX_DATA_SIZE + 1))]}

DataPacket(blk, n) == to_be_bytes(OpData) \o to_be_bytes(blk) \o PayloadOf(blk, n)
AckPacket(blk) == to_be_bytes(OpAcknowledgement) \o to_be_bytes(blk)
ErrorPacket(code, text) == to_be_bytes(OpError) \o to_be_bytes(code) \o text
RequestPacket(opcode, filename, modestr) ==
    to_be_bytes(opcode) \o filename \o <<0>> \o modestr \o <<0>>
\* A request whose mode string runs to the end of the buffer without a terminator
UnterminatedRequest(opcode, filename) ==
    to_be_bytes(opcode) \o filename \o <<0>>
    \o [i \in 1..(MAX_PACKET_SIZE - Len(filename) - 3) |-> 79]
BadOpcodePacket(opcode) == to_be_bytes(opcode) \o <<0, 1>>

RequestPackets ==
    {RequestPacket(OpReadRequest, FILE_ABCDE, BINARY_MODE),
     UnterminatedRequest(OpReadRequest, FILE_ABCDE)}
    \cup {RequestPacket(OpWriteRequest, FILE_ABCDE, s) : s \in ModeStrings}
TransferPackets ==
    {DataPacket(b, n) : b \in Blocks, n \in PayloadLens}
    \cup {AckPacket(b) : b \in Blocks}
    \cup {ErrorPacket(ErrDiskFull, MSG_WRONG)}
    \cup {BadOpcodePacket(6)}

\* What the caller passes to process: the buffer and the length it declares
Datagram(bytes, length) == [received |-> bytes, length |-> length]
ProcessInputs ==
    {Datagram(p, Len(p)) : p \in TransferPackets}
    \cup {Datagram(RequestPacket(OpWriteRequest, FILE_ABCDE, BINARY_MODE), 14),
          Datagram(RequestPacket(OpReadRequest, FILE_ABCDE, BINARY_MODE), 14)}
    \cup {Datagram(DataPacket(1, 1), 3),
          Datagram(ErrorPacket(ErrDiskFull, MSG_WRONG), MAX_PACKET_SIZE + 1),
          Datagram(DataPacket(1, 1), MAX_PACKET_SIZE + 1),
          Datagram(AckPacket(0), MAX_PACKET_SIZE + 1)}
ListenInputs ==
    RequestPackets \cup {AckPacket(0), BadOpcodePacket(6)}

----------------------------------------------------------------------------
(* The state machine: one action per public operation of Machine. *)

\* The Machine at the moment of a call.  A Vec the engine holds no reference
\* to is the caller's alone and is forgotten at the caller's next call.
Self ==
    [request_type |-> request_type, incoming_file |-> incoming_file,
     outgoing_file |-> outgoing_file, mode |-> mode, block |-> block,
     rx |-> IF incoming_file = "Some" THEN rx_vec ELSE <<>>,
     tx |-> IF outgoing_file = "Some" THEN tx_vec ELSE <<>>]

NoArg ==
    [received |-> <<>>, length |-> 0, filename |-> <<>>, file |-> <<>>, mode |-> "",
     code |-> 0, message |-> NoMessage]

\* The payload of an emitted Data packet (empty for anything else)
SentPayload(out) ==
    IF Len(out) >= FIXED_DATA_BYTES /\ from_be_bytes(out[1], out[2]) = OpData
    THEN SubSeq(out, FIXED_DATA_BYTES + 1, Len(out)) ELSE <<>>

\* The last call was process accepting a Data packet as Reader
AcceptsData(o, a, r) ==
    /\ o = "process" /\ r.result = "Ok"
    /\ request_type = "Read"
    /\ a.length <= MAX_PACKET_SIZE
    /\ opcode_of(Pad(a.received)) = OpData

\* Machine::new()
Machine_new ==
    [request_type |-> "None", incoming_file |-> "None", outgoing_file |-> "None",
     mode |-> "Binary", block |-> 0, rx |-> <<>>, tx |-> <<>>]

\* The second Machine before anything was sent: m its fields, to_peer and
\* to_local the datagram in flight to it and from it (empty: none), direction
\* the request_* call that started the transfer, file the sending side's file,
\* stage the call its caller makes next
NoPeer ==
    [m |-> Machine_new, to_peer |-> <<>>, to_local |-> <<>>,
     direction |-> "none", file |-> <<>>, stage |-> "listen"]

\* The call o(a) ran on Self and produced r
CommitEngine(o, a, r) ==
    /\ request_type' = r.m.request_type
    /\ incoming_file' = r.m.incoming_file
    /\ outgoing_file' = r.m.outgoing_file
    /\ mode' = r.m.mode
    /\ block' = r.m.block
    /\ rx_vec' = r.m.rx
    /\ tx_vec' = r.m.tx
    /\ op' = o /\ arg' = a
    /\ result' = r.result /\ count' = r.count
    /\ outgoing' = r.outgoing /\ filename_out' = r.filename
    /\ pre' = [request_type |-> request_type, incoming_file |-> incoming_file,
               outgoing_file |-> outgoing_file, mode |-> mode, block |-> block]
    /\ IF o \in {"request_receive_file", "reply_receive_file"} /\ r.result = "Ok"
       THEN rx_init' = a.file /\ rx_accepted' = <<>>
       ELSE IF incoming_file # "Some"
       THEN rx_init' = <<>> /\ rx_accepted' = <<>>
       ELSE /\ rx_init' = rx_init
            /\ rx_accepted' = IF AcceptsData(o, a, r)
                              THEN rx_accepted \o SubSeq(Pad(a.received), FIXED_DATA_BYTES + 1, a.length)
                              ELSE rx_accepted
    /\ tx_sent' = IF o \in {"request_send_file", "reply_send_file"} /\ r.result = "Ok"
                  THEN SentPayload(r.outgoing)
                  ELSE IF outgoing_file # "Some" THEN <<>>
                  ELSE tx_sent \o SentPayload(r.outgoing)
    /\ replies' = IF r.m.request_type = "None" THEN 0
                  ELSE IF o \in {"reply_send_file", "reply_receive_file"} THEN replies + 1
                  ELSE replies

\* The same with no second Machine taking part
Commit(o, a, r) ==
    /\ CommitEngine(o, a, r)
    /\ UNCHANGED peer

\* A panic ends the program
Running == result # "Panic"

Init ==
    /\ request_type = "None" /\ incoming_file = "None" /\ outgoing_file = "None"
    /\ mode = "Binary" /\ block = 0
    /\ rx_vec = <<>> /\ tx_vec = <<>>
    /\ op = "new" /\ arg = NoArg /\ result = "Ok" /\ count = 0
    /\ outgoing = <<>> /\ filename_out = <<>>
    /\ pre = [request_type |-> "None", incoming_file |-> "None", outgoing_file |-> "None",
              mode |-> "Binary", block |-> 0]
    /\ rx_init = <<>> /\ rx_accepted = <<>> /\ tx_sent = <<>>
    /\ replies = 0
    /\ peer = NoPeer

Reset ==
    /\ Running
    /\ Commit("reset", NoArg, Ok(reset(Self), <<>>))

SetMode(m) ==
    /\ Running
    /\ Commit("set_mode", [NoArg EXCEPT !.mode = m], set_mode(Self, m))

RequestSendFile(filename, file) ==
    /\ Running
    /\ Commit("request_send_file", [NoArg EXCEPT !.filename = filename, !.file = file],
              request_send_file(Self, filename, file))

RequestReceiveFile(filename, file) ==
    /\ Running
    /\ Commit("request_receive_file", [NoArg EXCEPT !.filename = filename, !.file = file],
              request_receive_file(Self, filename, file))

\* A caller may call reply_* again and again in one transfer, and each call
\* restarts the block count, so that the file received grows without bound:
\* the calls of one transfer are counted and capped.
ReplySendFile(file) ==
    /\ Running
    /\ replies < MaxReplies
    /\ Commit("reply_send_file", [NoArg EXCEPT !.file = file], reply_send_file(Self, file))

ReplyReceiveFile(file) ==
    /\ Running
    /\ replies < MaxReplies
    /\ Commit("reply_receive_file", [NoArg EXCEPT !.file = file],
              reply_receive_file(Self, file))

ListenForRequest(received) ==
    /\ Running
    /\ Commit("listen_for_request", [NoArg EXCEPT !.received = received,
                                                  !.length = MAX_PACKET_SIZE],
              listen_for_request(Self, Pad(received)))

\* length - FIXED_DATA_BYTES panics in a build with overflow checks and wraps
\* in a build without: either build may be the one running.
Process(d) ==
    /\ Running
    /\ \E overflow_checks \in BOOLEAN :
          Commit("process", [NoArg EXCEPT !.received = d.received, !.length = d.length],
                 process(Self, Pad(d.received), d.length, overflow_checks))

SendError(code, message) ==
    /\ Running
    /\ Commit("send_error", [NoArg EXCEPT !.code = code, !.message = message],
              send_error(Self, code, message))

\* Every operation but reset and send_error begins with a test of is_busy and
\* returns before it reads its arguments when the test fails.  In the states
\* where it fails one representative argument is explored.
Busy == request_type # "None"
WhenIdle(S, one) == IF Busy THEN {one} ELSE S
WhenBusy(S, one) == IF Busy THEN S ELSE {one}

\* The files a caller answers with: any of the set for the first file of a
\* transfer, one file of one byte when the engine holds a file already
WhenNoFile(S) ==
    IF incoming_file = "Some" \/ outgoing_file = "Some" THEN {FileOfLen(1)} ELSE S

Next ==
    \/ Reset
    \/ \E m \in WhenIdle({"Text", "Binary"}, "Text") : SetMode(m)
    \/ \E f \in Filenames, file \in WhenIdle(TxFiles, <<>>) : RequestSendFile(f, file)
    \/ \E f \in Filenames, file \in WhenIdle(RxFiles, <<>>) : RequestReceiveFile(f, file)
    \/ \E file \in WhenBusy(WhenNoFile(TxFiles), <<>>) : ReplySendFile(file)
    \/ \E file \in WhenBusy(WhenNoFile(RxFiles), <<>>) : ReplyReceiveFile(file)
    \/ \E received \in WhenIdle(ListenInputs, AckPacket(0)) : ListenForRequest(received)
    \/ \E d \in WhenBusy(ProcessInputs, Datagram(AckPacket(0), 4)) : Process(d)
    \/ \E a \in Aborts : SendError(a.code, a.message)

Spec == Init /\ [][Next]_vars

----------------------------------------------------------------------------
(* Requests with filenames up to the longest the packet can hold: the        *)
(* encoder (Request::new and Request::serialize), the two request_*          *)
(* operations and listen_for_request on what the encoder produced.           *)

\* Filenames of 0, 1 and MaxNameLen - 6 .. MaxNameLen bytes
MaxNameLen == 504
NameLens == {0, 1} \cup ((MaxNameLen - 6)..MaxNameLen)
NameOfLen(n) == [i \in 1..n |-> 65 + (i % 26)]
\* "\u{e9}", a filename of one char that a String holds as two bytes
FILE_E_ACUTE == <<195, 169>>
LongFilenames == {NameOfLen(n) : n \in NameLens} \cup {FILE_E_ACUTE}
Modes == {"Text", "Binary"}
RequestOpcodes == {OpReadRequest, OpWriteRequest}

\* The Requests a peer's encoder produces for these filenames
EncodedRequests ==
    {Request_serialize(o, m, f) : o \in RequestOpcodes, m \in Modes, f \in LongFilenames}
    \ {<<>>}

\* A request whose filename runs to the end of the buffer without a terminator
UnterminatedFilename(opcode) ==
    to_be_bytes(opcode) \o [i \in 1..(MAX_PACKET_SIZE - 2) |-> 70]

\* What listen_for_request must refuse: the packets of a transfer, an unknown
\* opcode, requests without a terminator, a request in mode MAIL
RefusedRequests ==
    {DataPacket(1, 1), AckPacket(0), ErrorPacket(ErrUndefined, MSG_WRONG),
     BadOpcodePacket(0), BadOpcodePacket(6),
     UnterminatedFilename(OpReadRequest), UnterminatedFilename(OpWriteRequest),
     UnterminatedRequest(OpReadRequest, FILE_ABCDE),
     UnterminatedRequest(OpWriteRequest, FILE_ABCDE),
     RequestPacket(OpReadRequest, FILE_ABCDE, MAIL_MODE),
     RequestPacket(OpWriteRequest, FILE_ABCDE, MAIL_MODE)}

\* A file of n bytes more than 65535 blocks hold
OversizeFile(n) == [i \in 1..(U16_MAX * MAX_DATA_SIZE + n) |-> 0]

\* Request::new(request, mode, filename) followed by serialize on the result
EncodeRequest(request, m, filename) ==
    /\ Running
    /\ Commit("Request_new", [NoArg EXCEPT !.filename = filename, !.mode = m],
              IF Request_new(m, filename)
              THEN Ok(Self, Request_serialize(request, m, filename))
              ELSE Err(Self, "BadRequestAttempted"))

NextRequests ==
    \/ Reset
    \/ \E m \in WhenIdle(Modes, "Text") : SetMode(m)
    \/ \E f \in WhenIdle(LongFilenames, FILE_ABCDE), file \in WhenIdle(RxFiles, <<>>) :
          RequestSendFile(f, file)
    \/ \E f \in WhenIdle(LongFilenames, FILE_ABCDE), file \in WhenIdle(RxFiles, <<>>) :
          RequestReceiveFile(f, file)
    \/ \E received \in WhenIdle(EncodedRequests \cup RefusedRequests, AckPacket(0)) :
          ListenForRequest(received)
    \/ \E o \in RequestOpcodes, m \in Modes, f \in LongFilenames : EncodeRequest(o, m, f)

SpecRequests == Init /\ [][NextRequests]_vars

----------------------------------------------------------------------------
(* Two engines: this one starts a transfer, the second one listens, replies  *)
(* and processes; each caller sends the bytes of every Ok(n) with n > 0 to   *)
(* the other side, which hands them to process once, in order.               *)

\* Files of no, one and two full blocks, with and without a partial last block
EndToEndLens ==
    {0, 1, MAX_DATA_SIZE - 1, MAX_DATA_SIZE, MAX_DATA_SIZE + 1,
     2 * MAX_DATA_SIZE, 2 * MAX_DATA_SIZE + 1}
EndToEndFiles == {FileOfLen(n) : n \in EndToEndLens}

\* What a caller puts on the wire after a call: outgoing[..n] for Ok(n), n > 0
Emitted(r) == IF r.result = "Ok" /\ r.count > 0 THEN r.outgoing ELSE <<>>

engine_vars == <<request_type, incoming_file, outgoing_file, mode, block, rx_vec, tx_vec,
                 op, arg, result, count, outgoing, filename_out, pre,
                 rx_init, rx_accepted, tx_sent, replies>>

InitiateWrite(file) ==
    /\ Running /\ peer.direction = "none"
    /\ \E r \in {request_send_file(Self, FILE_ABCDE, file)} :
          /\ CommitEngine("request_send_file",
                          [NoArg EXCEPT !.filename = FILE_ABCDE, !.file = file], r)
          /\ peer' = [peer EXCEPT !.direction = "write", !.file = file,
                                  !.to_peer = Emitted(r)]

InitiateRead(file) ==
    /\ Running /\ peer.direction = "none"
    /\ \E r \in {request_receive_file(Self, FILE_ABCDE, <<>>)} :
          /\ CommitEngine("request_receive_file",
                          [NoArg EXCEPT !.filename = FILE_ABCDE, !.file = <<>>], r)
          /\ peer' = [peer EXCEPT !.direction = "read", !.file = file,
                                  !.to_peer = Emitted(r)]

PeerListen ==
    /\ peer.stage = "listen" /\ peer.to_peer # <<>>
    /\ \E r \in {listen_for_request(peer.m, Pad(peer.to_peer))} :
          peer' = [peer EXCEPT !.m = r.m, !.to_peer = <<>>,
                               !.stage = IF r.result = "Ok" THEN "reply" ELSE "listen"]
    /\ UNCHANGED engine_vars

PeerReply ==
    /\ peer.stage = "reply"
    /\ \E r \in {IF peer.m.request_type = "Write"
                  THEN reply_send_file(peer.m, peer.file)
                  ELSE reply_receive_file(peer.m, <<>>)} :
          peer' = [peer EXCEPT !.m = r.m, !.to_local = Emitted(r), !.stage = "process"]
    /\ UNCHANGED engine_vars

PeerProcess ==
    /\ peer.stage = "process" /\ peer.to_peer # <<>>
    /\ \E overflow_checks \in BOOLEAN :
          \E r \in {process(peer.m, Pad(peer.to_peer), Len(peer.to_peer), overflow_checks)} :
             peer' = [peer EXCEPT !.m = r.m, !.to_peer = <<>>, !.to_local = Emitted(r)]
    /\ UNCHANGED engine_vars

LocalProcess ==
    /\ Running /\ peer.to_local # <<>>
    /\ \E overflow_checks \in BOOLEAN :
          \E r \in {process(Self, Pad(peer.to_local), Len(peer.to_local), overflow_checks)} :
             /\ CommitEngine("process", [NoArg EXCEPT !.received = peer.to_local,
                                                      !.length = Len(peer.to_local)], r)
             /\ peer' = [peer EXCEPT !.to_local = <<>>, !.to_peer = Emitted(r)]

NextEndToEnd ==
    \/ \E m \in Modes : peer.direction = "none" /\ SetMode(m)
    \/ \E file \in EndToEndFiles : InitiateWrite(file)
    \/ \E file \in EndToEndFiles : InitiateRead(file)
    \/ PeerListen
    \/ PeerReply
    \/ PeerProcess
    \/ LocalProcess

\* Each caller keeps calling while it has something to call with: weak
\* fairness of the calls of a started transfer.  PeerListen is enabled exactly
\* when ListenReady holds, so the last conjunct is its weak fairness.
EndToEndCalls ==
    \/ \E file \in EndToEndFiles : InitiateWrite(file)
    \/ \E file \in EndToEndFiles : InitiateRead(file)
    \/ PeerReply
    \/ PeerProcess
    \/ LocalProcess
ListenReady == peer.stage = "listen" /\ peer.to_peer # <<>>

SpecEndToEnd ==
    /\ Init /\ [][NextEndToEnd]_vars
    /\ WF_vars(EndToEndCalls)
    /\ (<>[]ListenReady => []<><<PeerListen>>_vars)

----------------------------------------------------------------------------
(* The block counter up to u16::MAX.  A Writer that was never given a file   *)
(* answers every Acknowledgement of its block with NoFile after it has       *)
(* incremented the block, so a peer that acknowledges block after block      *)
(* takes the counter to 65535 without any file contents.                     *)

NextBlockCounter ==
    \/ ~Busy /\ ListenForRequest(RequestPacket(OpReadRequest, FILE_ABCDE, BINARY_MODE))
    \/ Busy /\ Process(Datagram(AckPacket(block), FIXED_DATA_BYTES))

SpecBlockCounter == Init /\ [][NextBlockCounter]_vars

----------------------------------------------------------------------------
(* Properties.  The last call is described by op, arg, result, count and     *)
(* outgoing; pre holds the Machine fields it was called on.                  *)

InOpcode == opcode_of(Pad(arg.received))
InBlock == block_of(Pad(arg.received))
InPayload == SubSeq(Pad(arg.received), FIXED_DATA_BYTES + 1, arg.length)

\* process ran on a datagram that holds a complete header and fits the buffer
ProcessedPacket ==
    /\ op = "process"
    /\ pre.request_type # "None"
    /\ arg.length >= FIXED_DATA_BYTES /\ arg.length <= MAX_PACKET_SIZE

\* ... a Data packet, as Reader, and returned Ok
AcceptedData ==
    /\ ProcessedPacket /\ pre.request_type = "Read" /\ InOpcode = OpData
    /\ result = "Ok"

\* ... an Acknowledgement for the expected block, as Writer, and returned Ok
AcceptedAck ==
    /\ ProcessedPacket /\ pre.request_type = "Write" /\ InOpcode = OpAcknowledgement
    /\ InBlock = pre.block
    /\ result = "Ok"

Idle == request_type = "None"
NoFileReference == incoming_file = "None" /\ outgoing_file = "None"

\* C1: every Data packet the Reader accepts, the final short one included, is
\* answered with an Acknowledgement that carries the block number of that packet.
C1_AckCarriesAcceptedBlock ==
    AcceptedData => outgoing = AckPacket(pre.block)

\* C2: in a Busy state with the role's file attached, process on an
\* Acknowledgement (Writer) or Data (Reader) whose block differs from the
\* expected one returns BadPacketReceived, changes neither role, mode, block,
\* file references nor the received file, and writes nothing; and whenever
\* process raises a Writer's block by one, it was given an Acknowledgement for
\* the block the Writer was at.
C2_Mismatch ==
    /\ op' = "process"
    /\ arg'.length >= FIXED_DATA_BYTES /\ arg'.length <= MAX_PACKET_SIZE
    /\ \/ /\ request_type = "Write" /\ outgoing_file = "Some"
          /\ opcode_of(Pad(arg'.received)) = OpAcknowledgement
       \/ /\ request_type = "Read" /\ incoming_file = "Some"
          /\ opcode_of(Pad(arg'.received)) = OpData
    /\ block_of(Pad(arg'.received)) # block

C2_WriterAdvances ==
    /\ op' = "process"
    /\ request_type = "Write"
    /\ block' = block + 1

C2_BlockSequencing ==
    [][/\ C2_Mismatch =>
            /\ result' = "BadPacketReceived"
            /\ UNCHANGED <<request_type, mode, block, incoming_file, outgoing_file>>
            /\ incoming_file = "Some" => rx_vec' = rx_vec
            /\ outgoing' = <<>> /\ count' = 0
       /\ C2_WriterAdvances =>
            /\ opcode_of(Pad(arg'.received)) = OpAcknowledgement
            /\ block_of(Pad(arg'.received)) = block
            /\ arg'.length <= MAX_PACKET_SIZE]_vars

C2_MismatchedAckRejected ==
    /\ ProcessedPacket /\ pre.request_type = "Write" /\ pre.outgoing_file = "Some"
    /\ InOpcode = OpAcknowledgement /\ InBlock # pre.block
    /\ result = "BadPacketReceived" /\ block = pre.block /\ block > 0

\* C3: a read transfer ends on exactly the accepted Data packets whose payload
\* is shorter than 508 bytes (0 bytes included): such a packet leaves the engine
\* Idle, an accepted packet of exactly 508 bytes below block 65535 leaves it a
\* Reader expecting the next block, and a Data packet that is not accepted
\* leaves it a Reader.
C3_ReadEndsOnShortBlock ==
    /\ AcceptedData =>
          IF Len(InPayload) < MAX_DATA_SIZE
          THEN Idle
          ELSE pre.block < U16_MAX => (request_type = "Read" /\ block = pre.block + 1)
    /\ (ProcessedPacket /\ pre.request_type = "Read" /\ InOpcode = OpData /\ result # "Ok")
          => request_type = "Read"

C3_EndsOnEmptyBlock ==
    /\ AcceptedData /\ Len(InPayload) = 0 /\ Idle
    /\ Len(rx_accepted) = MAX_DATA_SIZE

\* C4: while a file to receive into is attached, and when the transfer has just
\* ended, it holds what it held when it was attached followed by the payloads
\* (bytes 4..length of each datagram) of the accepted Data packets in order.
C4_FileIsAcceptedPayloads ==
    (incoming_file = "Some" \/ AcceptedData) => rx_vec = rx_init \o rx_accepted

\* C5: every Data packet the Writer emits is opcode 3, the block number n >= 1
\* the engine is at, and file bytes [(n-1)*508, min(n*508, file length)); the
\* payloads emitted since the file was attached are a prefix of the file, and
\* the whole file once the last Acknowledgement has ended the transfer.
EmittedData ==
    /\ op \in {"process", "reply_send_file"} /\ result = "Ok"
    /\ Len(outgoing) >= FIXED_DATA_BYTES /\ opcode_of(Pad(outgoing)) = OpData

WriterFinished ==
    /\ AcceptedAck /\ pre.outgoing_file = "Some" /\ pre.incoming_file = "None"
    /\ pre.block < U16_MAX /\ Idle

C5_WriterSendsFileInOrder ==
    /\ EmittedData =>
          /\ block >= 1
          /\ outgoing = to_be_bytes(OpData) \o to_be_bytes(block)
                        \o SubSeq(tx_vec, (block - 1) * MAX_DATA_SIZE + 1,
                                  Min(block * MAX_DATA_SIZE, Len(tx_vec)))
    /\ (request_type = "Write" /\ outgoing_file = "Some" /\ incoming_file = "None")
          => tx_sent = SubSeq(tx_vec, 1, Min(block * MAX_DATA_SIZE, Len(tx_vec)))
    /\ WriterFinished => tx_sent = tx_vec

C5_TwoBlockFileSent ==
    WriterFinished /\ Len(tx_vec) = MAX_DATA_SIZE + 1 /\ tx_sent = tx_vec

\* C6 as claimed: when process accepts the expected Acknowledgement and moves to
\* block n, it ends the transfer with a zero-length result and no packet if
\* (n-1)*508 >= file length, and otherwise emits Data block n and stays Busy.
WriterAdvanced ==
    AcceptedAck /\ pre.outgoing_file = "Some" /\ pre.block < U16_MAX

EndsWithoutPacket == Idle /\ count = 0 /\ outgoing = <<>>
EmitsBlock(n) ==
    /\ request_type = "Write" /\ block = n
    /\ Len(outgoing) >= FIXED_DATA_BYTES
    /\ SubSeq(outgoing, 1, FIXED_DATA_BYTES) = to_be_bytes(OpData) \o to_be_bytes(n)

C6_Original ==
    WriterAdvanced =>
        IF pre.block * MAX_DATA_SIZE >= Len(tx_vec)
        THEN EndsWithoutPacket
        ELSE EmitsBlock(pre.block + 1)

\* C6 as amended: the transfer ends without a packet only if (n-1)*508 is
\* greater than the file length; at (n-1)*508 = file length the engine emits
\* Data block n with an empty payload and stays Busy.
C6_EndsPastEndOfFile ==
    WriterAdvanced =>
        IF pre.block * MAX_DATA_SIZE > Len(tx_vec)
        THEN EndsWithoutPacket
        ELSE EmitsBlock(pre.block + 1)

C6_EmptyFinalBlock ==
    /\ WriterAdvanced /\ pre.block >= 1 /\ pre.block * MAX_DATA_SIZE = Len(tx_vec)
    /\ EmitsBlock(pre.block + 1) /\ count = FIXED_DATA_BYTES

\* C7: in every Busy state, process on a packet with opcode Error leaves the
\* engine Idle without file references, returns Ok(0) and writes nothing.
C7_ErrorPacketEndsTransfer ==
    (op = "process" /\ pre.request_type # "None" /\ arg.length <= MAX_PACKET_SIZE
     /\ InOpcode = OpError)
        => /\ Idle /\ NoFileReference /\ block = 0
           /\ result = "Ok" /\ count = 0 /\ outgoing = <<>>

C7_ErrorDuringRead ==
    /\ op = "process" /\ InOpcode = OpError /\ arg.length <= MAX_PACKET_SIZE
    /\ pre.request_type = "Read" /\ pre.incoming_file = "Some" /\ pre.block = 2
    /\ Idle /\ outgoing = <<>>

\* C8: after reset or send_error the engine is Idle without file references,
\* and send_error has written an Error packet, opcode 5, with the given code.
C8_AbortAndResetYieldIdle ==
    /\ op \in {"reset", "send_error"} => (Idle /\ NoFileReference)
    /\ op = "send_error" =>
          /\ result = "Ok"
          /\ Len(outgoing) >= FIXED_DATA_BYTES
          /\ SubSeq(outgoing, 1, FIXED_DATA_BYTES)
                = to_be_bytes(OpError) \o to_be_bytes(arg.code)

\* C9: a reply_* call in the direction the local role does not have fails,
\* attaches no file and writes nothing; in particular reply_receive_file after
\* listen_for_request has accepted a Read-Request.
C9_ReplyAgainstRoleFails ==
    /\ (op = "reply_receive_file" /\ pre.request_type = "Write")
          => (result # "Ok" /\ incoming_file = pre.incoming_file /\ outgoing = <<>>)
    /\ (op = "reply_send_file" /\ pre.request_type = "Read")
          => (result # "Ok" /\ outgoing_file = pre.outgoing_file /\ outgoing = <<>>)

\* C10: listen_for_request on an Idle engine, given a well-formed Request (a
\* request opcode, a terminated filename, a terminated mode string that is
\* NETASCII or OCTET in any case), takes the inverse role, records the mode,
\* becomes Busy and returns the filename.
Upper(b) == IF b >= 97 /\ b <= 122 THEN b - 32 ELSE b
EqualsIgnoringCase(s, t) == Len(s) = Len(t) /\ \A i \in 1..Len(s) : Upper(s[i]) = Upper(t[i])
WellFormedRequests ==
    {[packet |-> RequestPacket(o, f, ms), opcode |-> o, filename |-> f,
      mode |-> IF EqualsIgnoringCase(ms, TEXT_MODE) THEN "Text" ELSE "Binary"] :
        o \in {OpReadRequest, OpWriteRequest}, f \in Filenames,
        ms \in {x \in ModeStrings : EqualsIgnoringCase(x, TEXT_MODE)
                                    \/ EqualsIgnoringCase(x, BINARY_MODE)}}

C10_ListenTakesInverseRole ==
    \A w \in WellFormedRequests :
        (op = "listen_for_request" /\ pre.request_type = "None" /\ arg.received = w.packet)
            => /\ result = "Ok"
               /\ request_type = (IF w.opcode = OpWriteRequest THEN "Read" ELSE "Write")
               /\ mode = w.mode
               /\ filename_out = w.filename

\* C11: a successful request_send_file leaves a Writer at block 0 with the given
\* file attached, a successful request_receive_file a Reader at block 1 with the
\* given file attached, and either returns the length of the Request it wrote.
\* Of the Acknowledgement and Data packets the Writer at block 0 is then given,
\* process accepts only the Acknowledgement of block 0 and answers it with Data
\* block 1; of those the Reader at block 1 is given, only Data block 1.
C11_InitiatedWrite ==
    (op' = "request_send_file" /\ result' = "Ok") =>
        /\ request_type' = "Write" /\ block' = 0
        /\ outgoing_file' = "Some" /\ tx_vec' = arg'.file
        /\ outgoing' = RequestPacket(OpWriteRequest, arg'.filename, mode_string(mode'))
        /\ count' = Len(outgoing')

C11_InitiatedRead ==
    (op' = "request_receive_file" /\ result' = "Ok") =>
        /\ request_type' = "Read" /\ block' = 1
        /\ incoming_file' = "Some" /\ rx_vec' = arg'.file
        /\ outgoing' = RequestPacket(OpReadRequest, arg'.filename, mode_string(mode'))
        /\ count' = Len(outgoing')

C11_TransferPacketNext ==
    /\ op' = "process"
    /\ arg'.length >= FIXED_DATA_BYTES /\ arg'.length <= MAX_PACKET_SIZE
    /\ opcode_of(Pad(arg'.received)) \in {OpAcknowledgement, OpData}

C11_WriterFirstMessage ==
    (/\ request_type = "Write" /\ block = 0
     /\ outgoing_file = "Some" /\ incoming_file = "None"
     /\ C11_TransferPacketNext) =>
        IF opcode_of(Pad(arg'.received)) = OpAcknowledgement /\ block_of(Pad(arg'.received)) = 0
        THEN /\ result' = "Ok"
             /\ request_type' = "Write" /\ block' = 1
             /\ outgoing' = to_be_bytes(OpData) \o to_be_bytes(1)
                            \o SubSeq(tx_vec, 1, Min(MAX_DATA_SIZE, Len(tx_vec)))
             /\ count' = Len(outgoing')
        ELSE /\ result' # "Ok"
             /\ UNCHANGED <<request_type, block, outgoing_file>>

C11_ReaderFirstMessage ==
    (/\ request_type = "Read" /\ block = 1
     /\ incoming_file = "Some" /\ outgoing_file = "None"
     /\ C11_TransferPacketNext) =>
        IF opcode_of(Pad(arg'.received)) = OpData /\ block_of(Pad(arg'.received)) = 1
        THEN result' = "Ok" /\ outgoing' # <<>>
        ELSE /\ result' # "Ok"
             /\ UNCHANGED <<request_type, block, incoming_file, rx_vec>>

C11_FirstExchange ==
    [][/\ C11_InitiatedWrite /\ C11_InitiatedRead
       /\ C11_WriterFirstMessage /\ C11_ReaderFirstMessage]_vars

C11_FirstAckYieldsFullBlock ==
    /\ AcceptedAck /\ pre.block = 0 /\ pre.outgoing_file = "Some"
    /\ Len(tx_vec) > MAX_DATA_SIZE
    /\ count = MAX_PACKET_SIZE /\ block = 1 /\ request_type = "Write"

\* C12: request_send_file, request_receive_file, listen_for_request and set_mode
\* called while Busy return Busy; process, reply_send_file and reply_receive_file
\* called while Idle return NoConnection; such a call changes neither role, mode,
\* block, file references nor the files, and writes nothing.
C12_NoEffect ==
    /\ UNCHANGED <<request_type, mode, block, incoming_file, outgoing_file>>
    /\ incoming_file = "Some" => rx_vec' = rx_vec
    /\ outgoing_file = "Some" => tx_vec' = tx_vec
    /\ outgoing' = <<>> /\ count' = 0

C12_WrongStateHasNoEffect ==
    [][/\ (/\ op' \in {"request_send_file", "request_receive_file",
                       "listen_for_request", "set_mode"}
           /\ request_type # "None")
             => (result' = "Busy" /\ C12_NoEffect)
       /\ (/\ op' \in {"process", "reply_send_file", "reply_receive_file"}
           /\ request_type = "None")
             => (result' = "NoConnection" /\ C12_NoEffect)]_vars

C12_ProcessWhileIdle ==
    /\ op = "process" /\ pre.request_type = "None" /\ pre.block = 1
    /\ result = "NoConnection" /\ Idle /\ block = 1

\* C17: listen_for_request on an Idle engine accepts a Request whose mode string
\* is OCTET or NETASCII in any case, recording Binary or Text, and returns
\* BadPacketReceived for a mode string that is neither.
C17_ModeMatchedIgnoringCase ==
    \A o \in {OpReadRequest, OpWriteRequest}, ms \in ModeStrings :
        (/\ op = "listen_for_request" /\ pre.request_type = "None"
         /\ arg.received = RequestPacket(o, FILE_ABCDE, ms))
            => IF EqualsIgnoringCase(ms, BINARY_MODE)
               THEN result = "Ok" /\ mode = "Binary"
               ELSE IF EqualsIgnoringCase(ms, TEXT_MODE)
               THEN result = "Ok" /\ mode = "Text"
               ELSE result = "BadPacketReceived"

\* C18: a call made in a Busy state that leaves the engine Busy leaves the mode
\* as it was.
C18_ModeFixedWhileBusy ==
    [][(request_type # "None" /\ request_type' # "None") => mode' = mode]_vars

C18_SetModeRefused ==
    /\ op = "set_mode" /\ pre.request_type # "None" /\ arg.mode # pre.mode
    /\ result = "Busy" /\ mode = pre.mode /\ request_type = pre.request_type

\* C19: as Reader, process on a Data packet with a declared length below 4
\* returns an error (it neither succeeds nor panics), leaves role, block and file
\* reference as they were and appends nothing to the file.
C19_ShortDataRejected ==
    (/\ op = "process" /\ pre.request_type = "Read"
     /\ InOpcode = OpData /\ arg.length < FIXED_DATA_BYTES)
        => /\ result \notin {"Ok", "Panic"}
           /\ request_type = pre.request_type /\ block = pre.block
           /\ incoming_file = pre.incoming_file
           /\ incoming_file = "Some" => rx_vec = rx_init \o rx_accepted

\* C20: in every Busy state, process with a declared length above 512 writes an
\* Error packet with code IllegalOperation, returns its length and leaves the
\* engine Idle without file references, whatever the opcode received.
C20_OversizeAnsweredWithError ==
    (op = "process" /\ pre.request_type # "None" /\ arg.length > MAX_PACKET_SIZE)
        => /\ Idle /\ NoFileReference
           /\ result = "Ok" /\ count = Len(outgoing) /\ count >= FIXED_DATA_BYTES
           /\ SubSeq(outgoing, 1, FIXED_DATA_BYTES)
                 = to_be_bytes(OpError) \o to_be_bytes(ErrIllegalOperation)

C20_OversizeDataAsReader ==
    /\ op = "process" /\ arg.length > MAX_PACKET_SIZE /\ InOpcode = OpData
    /\ pre.request_type = "Read" /\ pre.incoming_file = "Some"
    /\ Idle /\ result = "Ok" /\ count > FIXED_DATA_BYTES

\* The length of the Request packet for a filename in a mode:
\* 2 + len(filename) + 1 + len(mode string) + 1
RequestLength(m, filename) ==
    2 + Len(filename) + 1 + (IF m = "Text" THEN Len(TEXT_MODE) ELSE Len(BINARY_MODE)) + 1

\* C13: request_send_file or request_receive_file on an Idle engine with a file
\* of more than 65535 * 508 bytes, or with a filename whose Request would not
\* fit in 512 bytes, returns BadRequestAttempted, writes nothing, attaches no
\* file and leaves the engine Idle.  The filenames are offered in every Idle
\* state the runs reach; the file of 65535 * 508 + 1 bytes is offered to the
\* new engine, by applying the two operations to it.
C13_Refused(r) ==
    /\ r.result = "BadRequestAttempted"
    /\ r.outgoing = <<>> /\ r.count = 0
    /\ r.m.request_type = "None"
    /\ r.m.incoming_file = "None" /\ r.m.outgoing_file = "None"

C13_OversizeFileRefused ==
    op = "new" =>
        LET file == OversizeFile(1)
        IN /\ C13_Refused(request_send_file(Self, FILE_ABCDE, file))
           /\ C13_Refused(request_receive_file(Self, FILE_ABCDE, file))

C13_BadRequestRefused ==
    /\ (/\ op \in {"request_send_file", "request_receive_file"}
        /\ pre.request_type = "None"
        /\ \/ Len(arg.file) > U16_MAX * MAX_DATA_SIZE
           \/ RequestLength(pre.mode, arg.filename) > MAX_PACKET_SIZE)
           => /\ result = "BadRequestAttempted"
              /\ outgoing = <<>> /\ count = 0
              /\ Idle /\ NoFileReference
    /\ C13_OversizeFileRefused

C13_LongFilenameRefused ==
    /\ op = "request_receive_file" /\ pre.request_type = "None" /\ pre.mode = "Text"
    /\ Len(arg.filename) = MAX_PACKET_SIZE - FIXED_REQUEST_BYTES - Len(TEXT_MODE) + 1
    /\ result = "BadRequestAttempted" /\ Idle

\* C14: in either mode and for every filename length, encoding a Request
\* succeeds iff 2 + len(filename) + 1 + len(mode string) + 1 <= 512, and then
\* the number of bytes returned is that sum.
C14_EncodeSucceedsIffFits ==
    op = "Request_new" =>
        /\ result = "Ok" <=> RequestLength(arg.mode, arg.filename) <= MAX_PACKET_SIZE
        /\ result = "Ok" =>
              /\ count = RequestLength(arg.mode, arg.filename)
              /\ count <= MAX_PACKET_SIZE /\ Len(outgoing) = count

C14_LongestTextRequest ==
    /\ op = "Request_new" /\ arg.mode = "Text" /\ result = "Ok"
    /\ count = MAX_PACKET_SIZE /\ outgoing[MAX_PACKET_SIZE] = 0

\* C15 as claimed: in Binary mode a filename of 502 bytes is encoded and one of
\* 503 bytes is refused.
C15_Original ==
    (op = "Request_new" /\ arg.mode = "Binary") =>
        /\ Len(arg.filename) = 502 => result = "Ok"
        /\ Len(arg.filename) = 503 => result # "Ok"

\* C15 as amended: in Binary mode a filename of 503 bytes is encoded, into a
\* packet of 512 bytes, and one of 504 bytes is refused.
C15_BinaryBoundary ==
    (op = "Request_new" /\ arg.mode = "Binary") =>
        /\ Len(arg.filename) <= 503 => result = "Ok"
        /\ Len(arg.filename) = 503 => count = MAX_PACKET_SIZE
        /\ Len(arg.filename) >= 504 => result = "BadRequestAttempted"

C15_LongestBinaryRequest ==
    /\ op = "Request_new" /\ arg.mode = "Binary" /\ Len(arg.filename) = 503
    /\ result = "Ok" /\ count = MAX_PACKET_SIZE

\* C16: for every mode and every filename the encoder accepts,
\* listen_for_request on an Idle engine given the encoded Request returns Ok
\* with that filename and records that mode.
C16_RequestRoundTrip ==
    \A o \in RequestOpcodes, m \in Modes, f \in LongFilenames :
        (/\ Request_new(m, f)
         /\ op = "listen_for_request" /\ pre.request_type = "None"
         /\ arg.received = Request_serialize(o, m, f))
            => /\ result = "Ok"
               /\ filename_out = f
               /\ mode = m

\* C21: in every Busy state, process on a buffer whose opcode is not one of
\* 1..5 returns BadPacketReceived, leaves role, block and file references as
\* they were and writes nothing.
C21_BadOpcodeRejected ==
    (/\ op = "process" /\ pre.request_type # "None"
     /\ arg.length <= MAX_PACKET_SIZE
     /\ InOpcode \notin {OpReadRequest, OpWriteRequest, OpData, OpAcknowledgement, OpError})
        => /\ result = "BadPacketReceived"
           /\ request_type = pre.request_type /\ block = pre.block
           /\ incoming_file = pre.incoming_file /\ outgoing_file = pre.outgoing_file
           /\ outgoing = <<>> /\ count = 0

\* C22 as claimed: in every Busy state, process on a Request in either role, an
\* Acknowledgement as Reader or a Data as Writer returns Busy, changes neither
\* role, mode, block, file references nor the files, and writes nothing.
C22_RequestNext ==
    /\ op' = "process" /\ request_type # "None" /\ arg'.length <= MAX_PACKET_SIZE
    /\ opcode_of(Pad(arg'.received)) \in {OpReadRequest, OpWriteRequest}

C22_WrongDirectionNext ==
    /\ op' = "process" /\ arg'.length <= MAX_PACKET_SIZE
    /\ \/ request_type = "Read" /\ opcode_of(Pad(arg'.received)) = OpAcknowledgement
       \/ request_type = "Write" /\ opcode_of(Pad(arg'.received)) = OpData

C22_Original ==
    [][(C22_RequestNext \/ C22_WrongDirectionNext)
          => (result' = "Busy" /\ C12_NoEffect)]_vars

\* C22 as amended: a Request in either role returns Busy; an Acknowledgement as
\* Reader or a Data as Writer returns BadPacketReceived; in each case nothing
\* changes and nothing is written.
C22_UnfitOpcodeRejected ==
    [][/\ C22_RequestNext => (result' = "Busy" /\ C12_NoEffect)
       /\ C22_WrongDirectionNext => (result' = "BadPacketReceived" /\ C12_NoEffect)]_vars

C22_RequestDuringTransfer ==
    /\ op = "process" /\ InOpcode = OpReadRequest /\ arg.length <= MAX_PACKET_SIZE
    /\ pre.request_type = "Read" /\ pre.incoming_file = "Some" /\ pre.block = 2
    /\ result = "Busy" /\ request_type = "Read" /\ block = 2

\* C24: after listen_for_request has made the engine Busy and before a reply_*
\* call has attached a file, process on the Acknowledgement (Writer) or Data
\* (Reader) of the expected block returns NoFile and leaves role and block as
\* they were.
C24_NoFileBeforeReply ==
    (/\ ProcessedPacket
     /\ pre.incoming_file = "None" /\ pre.outgoing_file = "None"
     /\ \/ pre.request_type = "Write" /\ InOpcode = OpAcknowledgement
        \/ pre.request_type = "Read" /\ InOpcode = OpData
     /\ InBlock = pre.block)
        => /\ result = "NoFile"
           /\ request_type = pre.request_type
           /\ block = pre.block

\* C25: whenever a call has ended a transfer (process, send_error or reset
\* taking a Busy engine to Idle), the engine is as Machine::new() leaves it: no
\* role, no file reference, block 0, mode Binary.
C25_IdleIsFresh ==
    (/\ op \in {"process", "send_error", "reset"}
     /\ pre.request_type # "None" /\ Idle)
        => /\ NoFileReference
           /\ block = 0
           /\ mode = "Binary"

\* C28: after listen_for_request, reply_send_file (as Writer) attaches the file,
\* writes Data block 1 with the first min(508, file length) bytes and expects
\* Acknowledgement 1; reply_receive_file (as Reader) attaches the file, writes
\* the 4-byte Acknowledgement of block 0 and expects Data block 1; both leave the
\* role as it was.
C28_ReplyStartsTransfer ==
    /\ (op = "reply_send_file" /\ pre.request_type = "Write"
          /\ pre.outgoing_file = "None") =>
          /\ result = "Ok" /\ request_type = "Write"
          /\ outgoing_file = "Some" /\ tx_vec = arg.file
          /\ outgoing = to_be_bytes(OpData) \o to_be_bytes(1)
                        \o SubSeq(arg.file, 1, Min(MAX_DATA_SIZE, Len(arg.file)))
          /\ count = Len(outgoing)
          /\ block = 1
    /\ (op = "reply_receive_file" /\ pre.request_type = "Read"
          /\ pre.incoming_file = "None") =>
          /\ result = "Ok" /\ request_type = "Read"
          /\ incoming_file = "Some" /\ rx_vec = arg.file
          /\ outgoing = AckPacket(0) /\ count = FIXED_DATA_BYTES
          /\ block = 1

\* C29: every call returns without a panic, and the number of bytes it reports
\* is between 0 and 512.
C29_StaysInsideBuffer ==
    /\ result # "Panic"
    /\ count >= 0 /\ count <= MAX_PACKET_SIZE
    /\ Len(outgoing) <= MAX_PACKET_SIZE

\* C23: listen_for_request on an Idle engine returns NoConnection for a Data,
\* Acknowledgement or Error opcode, and BadPacketReceived for an opcode outside
\* 1..5, for a Request in which fewer than two terminators follow the opcode,
\* and for a Request whose mode string is neither NETASCII nor OCTET in any
\* case; in each of these cases the engine stays Idle and keeps its mode.
C23_Terminators == {i \in 3..MAX_PACKET_SIZE : Pad(arg.received)[i] = TERMINATOR_BYTE}
C23_ModeString ==
    LET first == SetMin(C23_Terminators)
        second == SetMin(C23_Terminators \ {first})
    IN SubSeq(Pad(arg.received), first + 1, second - 1)
C23_IsRequest == InOpcode \in {OpReadRequest, OpWriteRequest}
C23_Unterminated == C23_IsRequest /\ Cardinality(C23_Terminators) < 2
C23_UnknownMode ==
    /\ C23_IsRequest /\ Cardinality(C23_Terminators) >= 2
    /\ ~EqualsIgnoringCase(C23_ModeString, TEXT_MODE)
    /\ ~EqualsIgnoringCase(C23_ModeString, BINARY_MODE)

C23_ListenRefuses ==
    (op = "listen_for_request" /\ pre.request_type = "None") =>
        /\ InOpcode \in {OpData, OpAcknowledgement, OpError} =>
              (result = "NoConnection" /\ Idle /\ mode = pre.mode)
        /\ (InOpcode \notin 1..5 \/ C23_Unterminated \/ C23_UnknownMode) =>
              (result = "BadPacketReceived" /\ Idle /\ mode = pre.mode)

C23_UnterminatedFilenameInTextMode ==
    /\ op = "listen_for_request" /\ pre.request_type = "None" /\ pre.mode = "Text"
    /\ arg.received = UnterminatedFilename(OpWriteRequest)
    /\ result = "BadPacketReceived" /\ Idle /\ mode = "Text"

\* C26: once request_send_file or request_receive_file has started a transfer
\* that the second engine answers with listen_for_request and the matching
\* reply_*, with every datagram delivered once and in order, both engines are
\* eventually Idle and the receiving side's file equals the sending side's file.
C26_Started == peer.direction # "none"
C26_ReceivedFile == IF peer.direction = "write" THEN peer.m.rx ELSE rx_vec
C26_Done ==
    /\ C26_Started
    /\ request_type = "None" /\ peer.m.request_type = "None"
    /\ C26_ReceivedFile = peer.file

C26_TransferCompletes == C26_Started ~> C26_Done

\* C27: the block counter stays within 0..65535 and process never takes it
\* from 65535 to another value while the engine stays Busy; a Writer given the
\* Acknowledgement of block 65535 returns Ok(0), writes nothing and is Idle.
\* handle_data_and_send_ack, applied to a Reader at block 65535 and a Data
\* packet of that block with any payload length, returns the 4 bytes of an
\* Acknowledgement and an Idle engine.
C27_ReaderAtLastBlock ==
    [request_type |-> "Read", incoming_file |-> "Some", outgoing_file |-> "None",
     mode |-> "Binary", block |-> U16_MAX, rx |-> <<>>, tx |-> <<>>]

C27_LastDataEndsTransfer ==
    \A n \in PayloadLens :
        LET r == handle_data_and_send_ack(C27_ReaderAtLastBlock,
                                          Pad(to_be_bytes(OpData) \o to_be_bytes(U16_MAX)
                                              \o PayloadOf(1, n)), n)
        IN /\ r.result = "Ok" /\ r.count = FIXED_DATA_BYTES
           /\ opcode_of(Pad(r.outgoing)) = OpAcknowledgement
           /\ r.m.request_type = "None" /\ r.m.incoming_file = "None"
           /\ r.m.block \in 0..U16_MAX
           /\ r.m.rx = PayloadOf(1, n)

C27_BlockNeverWraps ==
    /\ block \in 0..U16_MAX
    /\ (op = "process" /\ pre.block = U16_MAX) =>
          \/ Idle
          \/ block = U16_MAX /\ request_type = pre.request_type
    /\ (/\ ProcessedPacket /\ pre.request_type = "Write"
        /\ InOpcode = OpAcknowledgement /\ InBlock = U16_MAX /\ pre.block = U16_MAX) =>
          /\ result = "Ok" /\ count = 0 /\ outgoing = <<>>
          /\ Idle /\ NoFileReference
    /\ C27_LastDataEndsTransfer

C27_LastBlockAcknowledged ==
    /\ op = "process" /\ pre.request_type = "Write" /\ pre.block = U16_MAX
    /\ arg.received = AckPacket(U16_MAX)
    /\ result = "Ok" /\ count = 0 /\ Idle

====
